---- MODULE Spec2Model ----
(***************************************************************************)
(* Model of plex_summarizer (src/main.py): PlexSummaryUpdater walks the    *)
(* sections of a Plex library, resolves every movie/show against TMDB      *)
(* (direct lookup by TMDB id, else title/year search) through an           *)
(* lru_cache-memoised HTTP client, and rewrites the summary when it        *)
(* differs.  Items of one section run in a ThreadPoolExecutor.             *)
(*                                                                         *)
(* Encoding of Python values:                                              *)
(*   - a str that the code builds or takes apart (guid ids, endpoints,     *)
(*     status messages) is a sequence of tokens, concatenation is \o;      *)
(*   - a str that is only compared is a TLA+ string;                       *)
(*   - a dict is a record/function, the empty dict and None are both the   *)
(*     empty function <<>> (the code only tests them with `not x`);        *)
(*   - a list is a sequence; a dict's items() is a sequence of <<k, v>>    *)
(*     pairs in insertion order;                                           *)
(*   - the value None inside a parameter dict is the string PyNone.        *)
(***************************************************************************)
EXTENDS Integers, Sequences, FiniteSets, TLC

\* ------------------------------------------------------------------ bounds
\* Number of filler requests the eviction scenario may issue.
MaxFill == 1025
\* Number of requests the sequential client scenario may issue.
MaxCalls == 3

\* --------------------------------------------------------- program constants
\* functools.lru_cache(maxsize=1024) on _make_tmdb_request_cached.
maxsize == 1024
\* Config.max_workers default.
DefaultMaxWorkers == 10

PyNone == "None"

\* ------------------------------------------------------------ str helpers
RECURSIVE Replace(_, _, _)
\* str.replace(old, "") for a two-token `old`: every occurrence is removed.
Replace(s, old1, old2) ==
    IF Len(s) = 0 THEN <<>>
    ELSE IF Len(s) >= 2 /\ s[1] = old1 /\ s[2] = old2
         THEN Replace(SubSeq(s, 3, Len(s)), old1, old2)
         ELSE <<s[1]>> \o Replace(Tail(s), old1, old2)

\* `tok in s` for a token of the string.
Contains(s, tok) == \E k \in 1..Len(s) : s[k] = tok

\* ------------------------------------------------------- sorted(params.items())
\* Lexicographic rank of the parameter names the model uses.
KeyRank(k) ==
    CASE k = "language" -> 1
      [] k = "query" -> 2
      [] k = "year" -> 3

RECURSIVE Insert(_, _)
Insert(p, s) ==
    IF Len(s) = 0 THEN <<p>>
    ELSE IF KeyRank(p[1]) < KeyRank(s[1][1]) THEN <<p>> \o s
         ELSE <<s[1]>> \o Insert(p, Tail(s))

RECURSIVE Sorted(_)
\* sorted() of a list of (key, value) pairs with distinct keys.
Sorted(items) ==
    IF Len(items) = 0 THEN <<>> ELSE Insert(items[1], Sorted(Tail(items)))

Unsorted(items) == items

\* param_items = tuple(sorted(params.items()))
ParamItems(items) == Sorted(items)

CacheKeyLastSegment(endpoint, items) ==
    << <<endpoint[Len(endpoint)]>>, ParamItems(items) >>

\* The lru_cache key of _make_tmdb_request_cached(self, endpoint, param_items);
\* there is one updater, so self is left out.
CacheKey(endpoint, items) == <<endpoint, ParamItems(items)>>

\* ------------------------------------------------------------- lru_cache
\* The cache is a sequence of [key, value] entries, least recently used first.
CacheIndex(c, key) ==
    IF \E k \in 1..Len(c) : c[k].key = key
    THEN CHOOSE k \in 1..Len(c) : c[k].key = key
    ELSE 0

CacheHas(c, key) == CacheIndex(c, key) # 0

CacheGet(c, key) == c[CacheIndex(c, key)].value

Without(c, k) == SubSeq(c, 1, k - 1) \o SubSeq(c, k + 1, Len(c))

\* A hit moves the entry to the most recently used end.
CacheTouch(c, key) ==
    LET k == CacheIndex(c, key) IN Without(c, k) \o <<c[k]>>

CacheStoreEarly(c, key, value) ==
    IF CacheHas(c, key) THEN c
    ELSE IF Len(c) >= maxsize - 1
         THEN Tail(c) \o <<[key |-> key, value |-> value]>>
         ELSE c \o <<[key |-> key, value |-> value]>>

\* After a miss the result is stored: if another caller stored the key in the
\* meantime the entry is left alone, else when the cache is full the least
\* recently used entry makes room.
CacheStore(c, key, value) ==
    IF CacheHas(c, key) THEN c
    ELSE IF Len(c) >= maxsize
         THEN Tail(c) \o <<[key |-> key, value |-> value]>>
         ELSE c \o <<[key |-> key, value |-> value]>>

\* ---------------------------------------------------------------- library
\* plex.library.sections(): title and type of every section, in server order,
\* with the items section.all() lists.
Sections ==
    << [title |-> "Movies", type |-> "movie", items |-> <<1, 2, 3>>],
       [title |-> "Music", type |-> "artist", items |-> <<4>>],
       [title |-> "TV", type |-> "show", items |-> <<5>>] >>

Items == 1..5

\* The attributes _update_item reads from a media item.  guids are Guid.id
\* strings, scheme and "://" and value being one token each.
Alien ==
    [title |-> "Alien", type |-> "movie", year |-> "1979",
     guids |-> << <<"imdb", "://", "tt0078748">>, <<"tmdb", "://", "348">> >>]
Brazil ==
    [title |-> "Brazil", type |-> "movie", year |-> "1985",
     guids |-> << <<"imdb", "://", "tt0088846">> >>]
AlienCopy ==
    [title |-> "Alien (copy)", type |-> "movie", year |-> "1979",
     guids |-> << <<"tmdb", "://", "348">> >>]
Abba ==
    [title |-> "Abba", type |-> "artist", year |-> PyNone, guids |-> <<>>]
Cheers ==
    [title |-> "Cheers", type |-> "show", year |-> PyNone, guids |-> <<>>]
Dark ==
    [title |-> "Dark", type |-> "show", year |-> "2017",
     guids |-> << <<"tvdb", "://", "334824">>, <<"tmdb", "://", "348">> >>]

\* No item: the place of the show in a library without shows.
Absent ==
    [title |-> "", type |-> "absent", year |-> PyNone, guids |-> <<>>]

\* The libraries the run is checked against: the show is one without
\* external ids and without a year, or one with a TMDB id, or the TV section
\* is empty.
Libraries ==
    {<<Alien, Brazil, AlienCopy, Abba, show>> : show \in {Cheers, Dark, Absent}}

\* Summary texts of the model: the library starts with Old everywhere.
Old == "old summary"
New == "new summary"

\* ------------------------------------------------------------ ItemResolver
GetTmdbIdFirstOnly(guids) ==
    IF Len(guids) = 0 THEN <<>>
    ELSE IF Contains(guids[1], "tmdb") THEN Replace(guids[1], "tmdb", "://")
         ELSE <<>>

RECURSIVE GetTmdbId(_)
\* _get_tmdb_id: the first guid whose id contains "tmdb", with "tmdb://"
\* removed; None (<<>>) when there is none.
GetTmdbId(guids) ==
    IF Len(guids) = 0 THEN <<>>
    ELSE IF Contains(guids[1], "tmdb") THEN Replace(guids[1], "tmdb", "://")
         ELSE GetTmdbId(Tail(guids))

MediaType(item) == IF item.type = "movie" THEN "movie" ELSE "tv"

\* The make_tmdb_request call _search_tmdb issues.
SearchRequest(item) ==
    [endpoint |-> <<"search", "/", MediaType(item)>>,
     items |-> << <<"query", item.title>>, <<"year", item.year>> >>,
     search |-> TRUE]

\* The make_tmdb_request call _get_tmdb_data issues for an item with an id.
LookupRequest(item, tmdb_id) ==
    [endpoint |-> <<MediaType(item), "/">> \o tmdb_id,
     items |-> <<>>,
     search |-> FALSE]

\* _get_tmdb_data: which request resolution makes for the item.
RequestOf(item) ==
    LET tmdb_id == GetTmdbId(item.guids) IN
    IF tmdb_id = <<>> THEN SearchRequest(item) ELSE LookupRequest(item, tmdb_id)

LastResult(response) ==
    IF DOMAIN response = {} THEN <<>>
    ELSE LET results == IF "results" \in DOMAIN response
                        THEN response.results ELSE <<>>
         IN IF Len(results) = 0 THEN <<>> ELSE results[Len(results)]

\* _search_tmdb after the request: next(iter(response.get("results", [])), None).
FirstResult(response) ==
    IF DOMAIN response = {} THEN <<>>
    ELSE LET results == IF "results" \in DOMAIN response
                        THEN response.results ELSE <<>>
         IN IF Len(results) = 0 THEN <<>> ELSE results[1]

\* What _get_tmdb_data returns given the response of its request.
TmdbData(req, response) == IF req.search THEN FirstResult(response) ELSE response

\* ----------------------------------------------------------- the transport
\* What session.get puts on the wire: the dict of the parameter pairs, the
\* None-valued ones left out of the query string by requests.
Wire(endpoint, param_items) ==
    [endpoint |-> endpoint,
     query |-> {param_items[k] : k \in {j \in 1..Len(param_items) :
                                            param_items[j][2] # PyNone}}]

NotFound == [status |-> 404, json |-> <<>>]
Ok(json) == [status |-> 200, json |-> json]

\* The answer of the metadata database db to a request; what it does not
\* know is not found.
Answer(db, wire) == IF wire \in DOMAIN db THEN db[wire] ELSE NotFound

\* session.get + raise_for_status + response.json(), the RequestException
\* turned into TMDBError (lines 125-132 and 154-162).  net is what the
\* network does: "ok" delivers the database's answer, "fail" is a
\* connection error.
HttpGet(db, endpoint, param_items, net) ==
    LET a == Answer(db, Wire(endpoint, param_items)) IN
    IF net = "fail"
    THEN [ok |-> FALSE, json |-> <<>>,
          error |-> <<"TMDB API request failed: ", "ConnectionError">>]
    ELSE IF a.status # 200
         THEN [ok |-> FALSE, json |-> <<>>,
               error |-> <<"TMDB API request failed: ", "404 Client Error">>]
         ELSE [ok |-> TRUE, json |-> a.json, error |-> <<>>]

\* ----------------------------------------------------- ReconciliationWorker
NoMatchGeneric == <<"No match found">>
NoMatch == <<"No TMDB match found">>
Updated == <<"Updated">>
NoChange == <<"No change needed">>

DecisionInverted(current, tmdb_data) ==
    IF DOMAIN tmdb_data = {} THEN "nomatch"
    ELSE IF "overview" \notin DOMAIN tmdb_data THEN "keyerror"
    ELSE IF current = tmdb_data.overview THEN "edit"
    ELSE "nochange"

DecisionAlwaysEdit(current, tmdb_data) ==
    IF DOMAIN tmdb_data = {} THEN "nomatch"
    ELSE IF "overview" \notin DOMAIN tmdb_data THEN "keyerror"
    ELSE "edit"

DecisionAgainstOriginal(current, tmdb_data) ==
    IF DOMAIN tmdb_data = {} THEN "nomatch"
    ELSE IF "overview" \notin DOMAIN tmdb_data THEN "keyerror"
    ELSE IF Old # tmdb_data.overview THEN "edit"
    ELSE "nochange"

\* The branch _update_item takes once resolution has returned tmdb_data.
Decision(current, tmdb_data) ==
    IF DOMAIN tmdb_data = {} THEN "nomatch"
    ELSE IF "overview" \notin DOMAIN tmdb_data THEN "keyerror"
    ELSE IF current # tmdb_data.overview THEN "edit"
    ELSE "nochange"

Returned(title, status) == [kind |-> "result", title |-> title, status |-> status]

OnExceptionPropagate(title, message) ==
    [kind |-> "exception", title |-> title, status |-> message]

OnExceptionBare(title, message) == Returned(title, message)

\* except Exception as e: return media_item.title, f"Error: {str(e)}"
OnException(title, message) == Returned(title, <<"Error: ">> \o message)

\* ------------------------------------------------------------------- state
VARIABLES
    plex,         \* the library server: item -> the attributes of the item
    tmdb,         \* the metadata database: wire request -> HTTP answer (fixed)
    summary,      \* the library server: item -> current summary
    max_workers,  \* config.max_workers
    cache,        \* the lru_cache of _make_tmdb_request_cached
    upc,          \* where update_library is: "loop", "pool" or "done"
    sec,          \* index of the section the for loop of update_library is at
    media_items,  \* _process_section: the snapshot list(section.all())
    pc,           \* item -> state of its future / position in _update_item
    resp,         \* item -> response make_tmdb_request returned to it
    outcome,      \* item -> what its future holds once finished
    results,      \* _process_section: the results list
    returned,     \* section index -> the list _process_section returned
    log,          \* the aggregates _log_results has logged
    calls,        \* history: item -> make_tmdb_request calls made for it
    gets,         \* history: item -> session.get calls made for it
    writes,       \* history: item -> media_item.edit calls made for it
    data,         \* history: item -> what _get_tmdb_data did (returned or
                  \* raised), what it returned and the summary compared with it
    hist,         \* client scenarios: the make_tmdb_request calls completed
    fills,        \* eviction scenario: requests made between the two probes
    submitted,    \* history: item -> times executor.submit was called for it
    started,      \* history: item -> times a worker began _update_item for it
    environ,      \* os.environ: the three variables, PyNone when unset
    config,       \* the Config main() builds from the environment
    exit,         \* how the process ended, once it has
    run,          \* number of the run of the script (first or second)
    first         \* history: item -> its outcome in the first run

libvars == <<plex, tmdb, summary, max_workers>>

MediaItem(i) == plex[i]
runvars == <<upc, sec, media_items, pc, resp, outcome, results, returned, log>>
histvars == <<calls, gets, writes, data>>
clientvars == <<hist, fills>>
countvars == <<submitted, started>>
bootvars == <<environ, config, exit, run, first>>
vars == <<libvars, cache, runvars, histvars, clientvars, countvars, bootvars>>

\* list(section.all()) for section k of library lib.
RECURSIVE Present(_, _)
Present(lib, slots) ==
    IF Len(slots) = 0 THEN <<>>
    ELSE IF lib[slots[1]].type = "absent" THEN Present(lib, Tail(slots))
         ELSE <<slots[1]>> \o Present(lib, Tail(slots))

SectionAll(lib, k) == Present(lib, Sections[k].items)

\* The requests the items of the library make, as they go on the wire.
SupportedAnyKind(section) == section.type \in {"movie", "show", "artist"}

\* section.type in ("movie", "show")
Supported(section) == section.type \in {"movie", "show"}

SupportedItems ==
    {i \in Items : \E k \in 1..Len(Sections) :
        Supported(Sections[k]) /\ \E j \in 1..Len(Sections[k].items) :
            Sections[k].items[j] = i}

LibraryWires(lib) ==
    {Wire(RequestOf(lib[i]).endpoint, RequestOf(lib[i]).items) :
        i \in {j \in SupportedItems : lib[j].type # "absent"}}

IsSearch(wire) == wire.endpoint[1] = "search"

LookupAnswers == {NotFound, Ok([overview |-> Old]), Ok([overview |-> New])}

SearchAnswers ==
    {Ok([results |-> <<>>]),
     Ok([results |-> <<[overview |-> New]>>]),
     Ok([results |-> <<[overview |-> Old], [overview |-> New]>>])}

\* The databases the run is checked against.
Databases(lib) ==
    {db \in [LibraryWires(lib) -> LookupAnswers \cup SearchAnswers] :
        \A w \in LibraryWires(lib) :
            IF IsSearch(w) THEN db[w] \in SearchAnswers ELSE db[w] \in LookupAnswers}

WorkerChoices == {1, 2, DefaultMaxWorkers}

\* os.getenv(name, default)
Getenv(env, name, default) == IF env[name] = PyNone THEN default ELSE env[name]

\* Config(plex_url=os.getenv("PLEX_URL", ""), ...) in main()
ConfigOf(env) ==
    [plex_url |-> Getenv(env, "PLEX_URL", ""),
     plex_token |-> Getenv(env, "PLEX_TOKEN", ""),
     tmdb_api_key |-> Getenv(env, "TMDB_API_KEY", "")]

\* An environment with the three variables set.
ValidEnviron ==
    [PLEX_URL |-> "http://plex:32400", PLEX_TOKEN |-> "token",
     TMDB_API_KEY |-> "key"]

\* The Config of a correct environment.
ValidConfig == ConfigOf(ValidEnviron)

\* No Config has been built yet.
NoConfig == <<>>

\* The process is running: no exit status, nothing printed on exit.
NoExit == [code |-> -1, raised |-> "", lines |-> <<>>]

NoData == [state |-> "pending", value |-> <<>>, current |-> ""]

\* Nothing has been enumerated, requested, written or logged.
InitState ==
    /\ cache = <<>>
    /\ sec = 1
    /\ media_items = <<>>
    /\ pc = [i \in Items |-> "idle"]
    /\ resp = [i \in Items |-> <<>>]
    /\ outcome = [i \in Items |-> <<>>]
    /\ results = <<>>
    /\ returned = [k \in 1..Len(Sections) |-> <<>>]
    /\ log = <<>>
    /\ calls = [i \in Items |-> <<>>]
    /\ gets = [i \in Items |-> <<>>]
    /\ writes = [i \in Items |-> <<>>]
    /\ data = [i \in Items |-> NoData]
    /\ hist = <<>>
    /\ fills = 0
    /\ submitted = [i \in Items |-> 0]
    /\ started = [i \in Items |-> 0]
    /\ run = 1
    /\ first = [i \in Items |-> <<>>]

\* The state once PlexSummaryUpdater(config) has returned in main().
InitRun ==
    /\ upc = "loop"
    /\ environ = ValidEnviron
    /\ config = ValidConfig
    /\ exit = NoExit
    /\ InitState

\* The updater is constructed (config valid, Plex connected, session made).
Init ==
    /\ plex \in Libraries
    /\ tmdb \in Databases(plex)
    /\ summary = [i \in Items |-> Old]
    /\ max_workers \in WorkerChoices
    /\ InitRun

\* ------------------------------------------------------- update_library
\* if section.type not in ("movie", "show"): continue
SkipSection ==
    /\ upc = "loop"
    /\ sec <= Len(Sections)
    /\ ~Supported(Sections[sec])
    /\ sec' = sec + 1
    /\ UNCHANGED <<libvars, cache, upc, media_items, pc, resp, outcome, results,
                   returned, log, histvars, clientvars, countvars, bootvars>>

\* _process_section up to the end of the submit loop: the snapshot is taken
\* and one future per item is queued on the executor.
ProcessSection ==
    /\ upc = "loop"
    /\ sec <= Len(Sections)
    /\ Supported(Sections[sec])
    /\ LET all == SectionAll(plex, sec)
           listed == {all[j] : j \in 1..Len(all)}
       IN /\ media_items' = all
          /\ pc' = [i \in Items |-> IF i \in listed THEN "queued" ELSE pc[i]]
          /\ submitted' = [i \in Items |->
                              IF i \in listed THEN submitted[i] + 1 ELSE submitted[i]]
    /\ results' = <<>>
    /\ upc' = "pool"
    /\ UNCHANGED <<libvars, cache, sec, resp, outcome, returned, log, histvars,
                   clientvars, started, bootvars>>

InSnapshot(i) == \E j \in 1..Len(media_items) : media_items[j] = i

Running == {i \in Items : pc[i] \in {"resolve", "get", "reconcile"}}

\* The executor's work queue is first in, first out.
NextQueued(i) ==
    \E j \in 1..Len(media_items) :
        /\ media_items[j] = i
        /\ pc[i] = "queued"
        /\ \A k \in 1..(j - 1) : pc[media_items[k]] # "queued"

HasIdleWorkerLoose(n, limit) == n <= limit

HasIdleWorkerStrict(n, limit) == n < limit - 1

\* ThreadPoolExecutor(max_workers=limit): with n threads busy, another
\* future can be taken up.
HasIdleWorker(n, limit) == n < limit

\* A pool thread takes the next queued future; at most max_workers threads.
WorkerStart(i) ==
    /\ upc = "pool"
    /\ NextQueued(i)
    /\ HasIdleWorker(Cardinality(Running), max_workers)
    /\ pc' = [pc EXCEPT ![i] = "resolve"]
    /\ started' = [started EXCEPT ![i] = @ + 1]
    /\ UNCHANGED <<libvars, cache, upc, sec, media_items, resp, outcome, results,
                   returned, log, histvars, clientvars, submitted, bootvars>>

\* _update_item -> _get_tmdb_data -> make_tmdb_request up to the lru_cache
\* lookup: a hit returns the stored response, a miss goes on to the transport.
Resolve(i) ==
    /\ pc[i] = "resolve"
    /\ LET req == RequestOf(MediaItem(i))
           key == CacheKey(req.endpoint, req.items)
       IN /\ calls' = [calls EXCEPT ![i] =
                          Append(@, [endpoint |-> req.endpoint, items |-> req.items])]
          /\ IF CacheHas(cache, key)
             THEN /\ resp' = [resp EXCEPT ![i] = CacheGet(cache, key)]
                  /\ cache' = CacheTouch(cache, key)
                  /\ pc' = [pc EXCEPT ![i] = "reconcile"]
             ELSE /\ pc' = [pc EXCEPT ![i] = "get"]
                  /\ UNCHANGED <<resp, cache>>
    /\ UNCHANGED <<libvars, upc, sec, media_items, outcome, results, returned, log,
                   gets, writes, data, clientvars, countvars, bootvars>>

\* _make_tmdb_request_cached on a miss: the HTTP request.  On success the
\* response is stored in the cache and returned; a failure raises TMDBError,
\* which leaves _get_tmdb_data and is caught in _update_item.
Get(i) ==
    /\ pc[i] = "get"
    /\ \E net \in {"ok", "fail"} :
         LET req == RequestOf(MediaItem(i))
             items == ParamItems(req.items)
             r == HttpGet(tmdb, req.endpoint, items, net)
         IN /\ gets' = [gets EXCEPT ![i] =
                          Append(@, [wire |-> Wire(req.endpoint, items), net |-> net])]
            /\ IF r.ok
               THEN /\ cache' = CacheStore(cache, CacheKey(req.endpoint, req.items), r.json)
                    /\ resp' = [resp EXCEPT ![i] = r.json]
                    /\ pc' = [pc EXCEPT ![i] = "reconcile"]
                    /\ UNCHANGED <<outcome, data>>
               ELSE /\ outcome' = [outcome EXCEPT ![i] =
                                     OnException(MediaItem(i).title, r.error)]
                    /\ data' = [data EXCEPT ![i] = [state |-> "raised", value |-> <<>>,
                                                     current |-> ""]]
                    /\ pc' = [pc EXCEPT ![i] = "finished"]
                    /\ UNCHANGED <<cache, resp>>
    /\ UNCHANGED <<libvars, upc, sec, media_items, results, returned, log, calls,
                   writes, clientvars, countvars, bootvars>>

\* The rest of _update_item: _get_tmdb_data returns, the summaries are
\* compared, media_item.edit is called when they differ (it may raise).
Reconcile(i) ==
    /\ pc[i] = "reconcile"
    /\ LET item == MediaItem(i)
           tmdb_data == TmdbData(RequestOf(item), resp[i])
           d == Decision(summary[i], tmdb_data)
       IN /\ data' = [data EXCEPT ![i] = [state |-> "returned", value |-> tmdb_data,
                                        current |-> summary[i]]]
          /\ CASE d = "nomatch" ->
                    /\ outcome' = [outcome EXCEPT ![i] = Returned(item.title, NoMatch)]
                    /\ UNCHANGED <<summary, writes>>
               [] d = "nochange" ->
                    /\ outcome' = [outcome EXCEPT ![i] = Returned(item.title, NoChange)]
                    /\ UNCHANGED <<summary, writes>>
               [] d = "keyerror" ->
                    /\ outcome' = [outcome EXCEPT ![i] =
                                     OnException(item.title, <<"'overview'">>)]
                    /\ UNCHANGED <<summary, writes>>
               [] d = "edit" ->
                    \E applied \in BOOLEAN :
                        /\ writes' = [writes EXCEPT ![i] =
                                        Append(@, [value |-> tmdb_data.overview,
                                                   applied |-> applied])]
                        /\ IF applied
                           THEN /\ summary' = [summary EXCEPT ![i] = tmdb_data.overview]
                                /\ outcome' = [outcome EXCEPT ![i] =
                                                 Returned(item.title, Updated)]
                           ELSE /\ outcome' = [outcome EXCEPT ![i] =
                                                 OnException(item.title, <<"edit failed">>)]
                                /\ UNCHANGED summary
    /\ pc' = [pc EXCEPT ![i] = "finished"]
    /\ UNCHANGED <<plex, tmdb, max_workers, cache, upc, sec, media_items, resp, results,
                   returned, log, calls, gets, clientvars, countvars, bootvars>>

\* One turn of the as_completed loop: future.result() is appended to results,
\* or, if the future holds an exception, it is logged and nothing is appended.
Collect(i) ==
    /\ upc = "pool"
    /\ pc[i] = "finished"
    /\ results' = IF outcome[i].kind = "result"
                  THEN Append(results, [item |-> i, title |-> outcome[i].title,
                                        status |-> outcome[i].status])
                  ELSE results
    /\ pc' = [pc EXCEPT ![i] = "collected"]
    /\ UNCHANGED <<libvars, cache, upc, sec, media_items, resp, outcome, returned,
                   log, histvars, clientvars, countvars, bootvars>>

CountNotError(rs) ==
    Cardinality({k \in 1..Len(rs) : rs[k].status[1] # "Error: "})

CountUpdated(rs) == Cardinality({k \in 1..Len(rs) : rs[k].status = Updated})

\* _log_results: the aggregate of one section.
LogResults(title, rs) ==
    [section |-> title, updated |-> CountUpdated(rs), total |-> Len(rs)]

ExhaustedOnceStarted(futures, state) ==
    \A j \in 1..Len(futures) : state[futures[j]] # "queued"

\* as_completed(future_to_title) has yielded every future.
Exhausted(futures, state) ==
    \A j \in 1..Len(futures) : state[futures[j]] = "collected"

\* as_completed is exhausted, the executor shuts down, _process_section
\* returns; update_library logs the aggregate unless results is empty.
ReturnSection ==
    /\ upc = "pool"
    /\ Exhausted(media_items, pc)
    /\ returned' = [returned EXCEPT ![sec] = results]
    /\ log' = IF Len(results) = 0 THEN log
              ELSE Append(log, LogResults(Sections[sec].title, results))
    /\ sec' = sec + 1
    /\ upc' = "loop"
    /\ UNCHANGED <<libvars, cache, media_items, pc, resp, outcome, results,
                   histvars, clientvars, countvars, bootvars>>

\* The for loop of update_library is exhausted.
Finish ==
    /\ upc = "loop"
    /\ sec > Len(Sections)
    /\ upc' = "done"
    /\ UNCHANGED <<libvars, cache, sec, media_items, pc, resp, outcome, results,
                   returned, log, histvars, clientvars, countvars, bootvars>>

Next ==
    \/ SkipSection
    \/ ProcessSection
    \/ \E i \in Items : WorkerStart(i)
    \/ \E i \in Items : Resolve(i)
    \/ \E i \in Items : Get(i)
    \/ \E i \in Items : Reconcile(i)
    \/ \E i \in Items : Collect(i)
    \/ ReturnSection
    \/ Finish

Spec == Init /\ [][Next]_vars

\* The run with a small pool and a show that the search finds, every
\* thread and every network call getting its turn: a step that can be taken
\* is eventually taken.
InitFair ==
    /\ Init
    /\ plex[5] = Cheers
    /\ max_workers \in {1, 2}
    /\ \A w \in DOMAIN tmdb :
          w.endpoint = SearchRequest(Cheers).endpoint =>
              tmdb[w] = Ok([results |-> <<[overview |-> New]>>])

SpecFair == InitFair /\ [][Next]_vars /\ WF_vars(Next)

\* ------------------------------------------------------------ run again
\* What is remembered of item i when a run has ended.
Remembered(i) == [outcome |-> outcome[i], gets |-> gets[i], writes |-> writes[i]]

\* python main.py is started a second time once the first run has ended:
\* a new process with an empty cache, against the same library (the
\* summaries as the first run left them) and the same database.
Rerun ==
    /\ upc = "done"
    /\ run = 1
    /\ run' = 2
    /\ first' = [i \in Items |-> Remembered(i)]
    /\ cache' = <<>>
    /\ upc' = "loop"
    /\ sec' = 1
    /\ media_items' = <<>>
    /\ pc' = [i \in Items |-> "idle"]
    /\ resp' = [i \in Items |-> <<>>]
    /\ outcome' = [i \in Items |-> <<>>]
    /\ results' = <<>>
    /\ returned' = [k \in 1..Len(Sections) |-> <<>>]
    /\ log' = <<>>
    /\ calls' = [i \in Items |-> <<>>]
    /\ gets' = [i \in Items |-> <<>>]
    /\ writes' = [i \in Items |-> <<>>]
    /\ data' = [i \in Items |-> NoData]
    /\ submitted' = [i \in Items |-> 0]
    /\ started' = [i \in Items |-> 0]
    /\ UNCHANGED <<libvars, clientvars, environ, config, exit>>

\* Two runs over a library of three movies and a show, two workers: the
\* search finds the show with a new overview and the movie without ids with
\* the overview it has; the movies with an id are looked up in any database.
InitTwice ==
    /\ Init
    /\ plex[5] = Cheers
    /\ max_workers = 2
    /\ \A w \in DOMAIN tmdb :
          /\ w.endpoint = SearchRequest(Cheers).endpoint =>
                tmdb[w] = Ok([results |-> <<[overview |-> New]>>])
          /\ w.endpoint = SearchRequest(Brazil).endpoint =>
                tmdb[w] = Ok([results |-> <<[overview |-> Old], [overview |-> New]>>])

NextTwice == Next \/ Rerun

SpecTwice == InitTwice /\ [][NextTwice]_vars

\* ============================================================ start-up
\* required = ["plex_url", "plex_token", "tmdb_api_key"]
required == <<"plex_url", "plex_token", "tmdb_api_key">>

\* not value, for a string or None
Falsy(value) == value \in {PyNone, ""}

\* [field for field in fields if not getattr(cfg, field)]
RECURSIVE FalsyFields(_, _)
FalsyFields(cfg, fields) ==
    IF Len(fields) = 0 THEN <<>>
    ELSE IF Falsy(cfg[Head(fields)])
         THEN <<Head(fields)>> \o FalsyFields(cfg, Tail(fields))
         ELSE FalsyFields(cfg, Tail(fields))

MissingFirstOnly(cfg) ==
    IF FalsyFields(cfg, required) = <<>> THEN <<>>
    ELSE <<Head(FalsyFields(cfg, required))>>

\* missing in _validate_config
Missing(cfg) == FalsyFields(cfg, required)

\* sep.join(names)
RECURSIVE Join(_, _)
Join(names, sep) ==
    IF Len(names) = 0 THEN <<>>
    ELSE IF Len(names) = 1 THEN <<names[1]>>
         ELSE <<names[1], sep>> \o Join(Tail(names), sep)

\* f"Missing required configuration: {', '.join(missing)}"
ConfigErrorMessage(missing) ==
    <<"Missing required configuration: ">> \o Join(missing, ", ")

\* f"Failed to connect to Plex: {e}"
PlexErrorMessage(e) == <<"Failed to connect to Plex: ">> \o e

\* What PlexServer(url, token) raises when the server cannot be reached.
ConnectFailure == <<"ConnectionError">>

\* raise SystemExit(f"Error: {e}"): the interpreter prints the one line and
\* exits with status 1.
SystemExit(raised, message) ==
    [code |-> 1, raised |-> raised, lines |-> << <<"Error: ">> \o message >>]

\* An exception that no handler catches: the interpreter prints the
\* traceback and exits with status 1.
Uncaught(raised, message, line) ==
    [code |-> 1, raised |-> raised,
     lines |-> << <<"Traceback (most recent call last):">>,
                  <<"  File \"main.py\", line ", line, ", in <module>">>,
                  <<raised, ": ">> \o message >>]

\* The module body: the environment is read and a first connection to the
\* Plex server is made, outside any try.
ImportModule ==
    /\ upc = "import"
    /\ \E connected \in BOOLEAN :
          IF connected
          THEN /\ upc' = "main"
               /\ exit' = exit
          ELSE /\ upc' = "exited"
               /\ exit' = Uncaught("ConnectionError", ConnectFailure, "59")
    /\ UNCHANGED <<libvars, cache, sec, media_items, pc, resp, outcome, results,
                   returned, log, histvars, clientvars, countvars, environ,
                   config, run, first>>

\* main() up to the call of update_library: the Config is built, the
\* updater is constructed (_validate_config, _init_plex,
\* _init_tmdb_session); any exception becomes SystemExit.
Main ==
    /\ upc = "main"
    /\ config' = ConfigOf(environ)
    /\ \E connected \in BOOLEAN :
          LET missing == Missing(ConfigOf(environ))
          IN IF Len(missing) > 0
             THEN /\ upc' = "exited"
                  /\ exit' = SystemExit("ConfigError", ConfigErrorMessage(missing))
             ELSE IF ~connected
             THEN /\ upc' = "exited"
                  /\ exit' = SystemExit("PlexError", PlexErrorMessage(ConnectFailure))
             ELSE /\ upc' = "loop"
                  /\ exit' = exit
    /\ UNCHANGED <<libvars, cache, sec, media_items, pc, resp, outcome, results,
                   returned, log, histvars, clientvars, countvars, environ,
                   run, first>>

\* The values an environment variable can have: unset, empty, or set.
Environments ==
    {[PLEX_URL |-> u, PLEX_TOKEN |-> t, TMDB_API_KEY |-> k] :
        u \in {PyNone, "", ValidEnviron.PLEX_URL},
        t \in {PyNone, "", ValidEnviron.PLEX_TOKEN},
        k \in {PyNone, "", ValidEnviron.TMDB_API_KEY}}

\* python main.py is started: nothing has run yet. Config.max_workers keeps
\* its default, main() does not set it.
InitStart ==
    /\ plex = <<Alien, Brazil, AlienCopy, Abba, Cheers>>
    /\ tmdb \in Databases(plex)
    /\ summary = [i \in Items |-> Old]
    /\ max_workers = DefaultMaxWorkers
    /\ upc = "import"
    /\ environ \in Environments
    /\ config = NoConfig
    /\ exit = NoExit
    /\ InitState

NextStart == ImportModule \/ Main \/ Next

SpecStart == InitStart /\ [][NextStart]_vars

MakeRequestStoringFailures(c, db, endpoint, items, extra, net) ==
    IF extra
    THEN LET r == HttpGet(db, endpoint, items, net) IN
         [cache |-> c, ok |-> r.ok, ret |-> r.json, gets |-> 1]
    ELSE LET key == CacheKey(endpoint, items) IN
         IF CacheHas(c, key)
         THEN [cache |-> CacheTouch(c, key), ok |-> TRUE,
               ret |-> CacheGet(c, key), gets |-> 0]
         ELSE LET r == HttpGet(db, endpoint, ParamItems(items), net) IN
              [cache |-> CacheStore(c, key, r.json),
               ok |-> r.ok, ret |-> r.json, gets |-> 1]

\* ------------------------------------------- make_tmdb_request, sequentially
\* One whole call of make_tmdb_request(endpoint, params=dict(items), **kwargs)
\* with no other call in progress.  extra: kwargs other than params were
\* given, and the request bypasses the cache.  Yields the cache afterwards,
\* whether the call returned (ok) or raised TMDBError, the value returned and
\* the number of session.get calls made.
MakeRequest(c, db, endpoint, items, extra, net) ==
    IF extra
    THEN LET r == HttpGet(db, endpoint, items, net) IN
         [cache |-> c, ok |-> r.ok, ret |-> r.json, gets |-> 1]
    ELSE LET key == CacheKey(endpoint, items) IN
         IF CacheHas(c, key)
         THEN [cache |-> CacheTouch(c, key), ok |-> TRUE,
               ret |-> CacheGet(c, key), gets |-> 0]
         ELSE LET r == HttpGet(db, endpoint, ParamItems(items), net) IN
              [cache |-> IF r.ok THEN CacheStore(c, key, r.json) ELSE c,
               ok |-> r.ok, ret |-> r.json, gets |-> 1]

\* The record of a completed call kept in hist.
Called(endpoint, items, extra, r) ==
    [endpoint |-> endpoint, items |-> items, extra |-> extra,
     ok |-> r.ok, ret |-> r.ret, gets |-> r.gets]

ClientEndpoints == {<<"movie", "/", "348">>, <<"search", "/", "movie">>}

\* The params dicts of the client scenario, as items() in insertion order.
ClientParams ==
    { <<>>,
      << <<"query", "Brazil">> >>,
      << <<"query", "Brazil">>, <<"year", "1985">> >>,
      << <<"year", "1985">>, <<"query", "Brazil">> >> }

\* The database of the client scenario: the movie, and two searches with
\* different answers.
ClientDatabase ==
    LET w1 == Wire(<<"movie", "/", "348">>, <<>>)
        w2 == Wire(<<"search", "/", "movie">>, << <<"query", "Brazil">> >>)
        w3 == Wire(<<"search", "/", "movie">>,
                   << <<"query", "Brazil">>, <<"year", "1985">> >>)
    IN [w \in {w1, w2, w3} |->
          IF w = w1 THEN Ok([overview |-> New])
          ELSE IF w = w2 THEN Ok([results |-> <<[overview |-> Old], [overview |-> New]>>])
          ELSE Ok([results |-> <<[overview |-> New]>>])]

InitClient ==
    /\ plex = <<Alien, Brazil, AlienCopy, Abba, Cheers>>
    /\ tmdb = ClientDatabase
    /\ summary = [i \in Items |-> Old]
    /\ max_workers = DefaultMaxWorkers
    /\ InitRun

\* A caller makes one request and waits for it.
ClientCall ==
    /\ Len(hist) < MaxCalls
    /\ \E endpoint \in ClientEndpoints, items \in ClientParams,
          extra \in BOOLEAN, net \in {"ok", "fail"} :
         LET r == MakeRequest(cache, tmdb, endpoint, items, extra, net) IN
         /\ cache' = r.cache
         /\ hist' = Append(hist, Called(endpoint, items, extra, r))
    /\ UNCHANGED <<libvars, runvars, histvars, fills, countvars, bootvars>>

NextClient == ClientCall

SpecClient == InitClient /\ [][NextClient]_vars

\* ------------------------------------------------------ eviction scenario
\* One request (the probe) is made, then up to MaxFill requests for other
\* movies, all distinct, then the probe again.  Every request succeeds.
ProbeEndpoint == <<"tv", "/", "348">>

FillEndpoint(n) == <<"movie", "/", ToString(n)>>

EvictDatabase ==
    [w \in {Wire(ProbeEndpoint, <<>>)}
              \cup {Wire(FillEndpoint(n), <<>>) : n \in 1..(MaxFill + 1)}
        |-> Ok([overview |-> New])]

FirstProbe == MakeRequest(<<>>, EvictDatabase, ProbeEndpoint, <<>>, FALSE, "ok")

\* The cache after the probe and k <= maxsize - 1 filler requests: the probe's
\* entry, then the fillers' in the order they were made.
Prefilled(k) ==
    [n \in 1..(k + 1) |->
        IF n = 1
        THEN [key |-> CacheKey(ProbeEndpoint, <<>>), value |-> FirstProbe.ret]
        ELSE [key |-> CacheKey(FillEndpoint(n - 1), <<>>),
              value |-> EvictDatabase[Wire(FillEndpoint(n - 1), <<>>)].json]]

\* The scenario starts with the empty cache of a new process, or (to keep
\* the runs that matter short) in the state the probe and maxsize - 2
\* filler requests leave behind.
InitEvict ==
    /\ plex = <<Alien, Brazil, AlienCopy, Abba, Dark>>
    /\ tmdb = EvictDatabase
    /\ summary = [i \in Items |-> Old]
    /\ max_workers = DefaultMaxWorkers
    /\ upc = "loop"
    /\ sec = 1
    /\ media_items = <<>>
    /\ pc = [i \in Items |-> "idle"]
    /\ resp = [i \in Items |-> <<>>]
    /\ outcome = [i \in Items |-> <<>>]
    /\ results = <<>>
    /\ returned = [k \in 1..Len(Sections) |-> <<>>]
    /\ log = <<>>
    /\ calls = [i \in Items |-> <<>>]
    /\ gets = [i \in Items |-> <<>>]
    /\ writes = [i \in Items |-> <<>>]
    /\ data = [i \in Items |-> NoData]
    /\ submitted = [i \in Items |-> 0]
    /\ started = [i \in Items |-> 0]
    /\ environ = ValidEnviron
    /\ config = ValidConfig
    /\ exit = NoExit
    /\ run = 1
    /\ first = [i \in Items |-> <<>>]
    /\ \/ /\ cache = <<>>
          /\ hist = <<>>
          /\ fills = 0
       \/ /\ cache = Prefilled(maxsize - 2)
          /\ hist = <<Called(ProbeEndpoint, <<>>, FALSE, FirstProbe)>>
          /\ fills = maxsize - 2

Probe ==
    /\ Len(hist) < 2
    /\ LET r == MakeRequest(cache, tmdb, ProbeEndpoint, <<>>, FALSE, "ok") IN
         /\ cache' = r.cache
         /\ hist' = Append(hist, Called(ProbeEndpoint, <<>>, FALSE, r))
    /\ UNCHANGED <<libvars, runvars, histvars, fills, countvars, bootvars>>

Fill ==
    /\ Len(hist) = 1
    /\ fills < MaxFill
    /\ LET r == MakeRequest(cache, tmdb, FillEndpoint(fills + 1), <<>>, FALSE, "ok") IN
         cache' = r.cache
    /\ fills' = fills + 1
    /\ UNCHANGED <<libvars, runvars, histvars, hist, countvars, bootvars>>

NextEvict == Probe \/ Fill

SpecEvict == InitEvict /\ [][NextEvict]_vars

\* The second initial state is the state the first one leads to.
PrefilledIsReached ==
    (Len(hist) = 1 /\ fills = maxsize - 2) => cache = Prefilled(maxsize - 2)

\* ======================================================================
\* Properties
\* ======================================================================
Done(i) == pc[i] \in {"finished", "collected"}

IsError(status) == Len(status) >= 1 /\ status[1] = "Error: "

SectionReturned(k) == Supported(Sections[k]) /\ k < sec

ItemsOf(k) == {SectionAll(plex, k)[j] : j \in 1..Len(SectionAll(plex, k))}

ResultsFor(rs, i) == {j \in 1..Len(rs) : rs[j].item = i}

\* C1: the list _process_section returns holds exactly one result for every
\* item of the section's snapshot, under every interleaving of the workers
\* and whatever the item's reconciliation did (updated, unchanged, no match,
\* error); each result carries its item's title.
C1_OneResultPerItem ==
    \A k \in 1..Len(Sections) :
        SectionReturned(k) =>
            /\ Len(returned[k]) = Len(SectionAll(plex, k))
            /\ \A i \in ItemsOf(k) :
                  /\ Cardinality(ResultsFor(returned[k], i)) = 1
                  /\ \A j \in ResultsFor(returned[k], i) :
                        returned[k][j].title = plex[i].title

\* A section has returned in which one item errored, one was updated and
\* one found no match, the results not in enumeration order.
C1_Witness ==
    /\ SectionReturned(1)
    /\ \E a, b, c \in 1..Len(returned[1]) :
          /\ IsError(returned[1][a].status)
          /\ returned[1][b].status = Updated
          /\ returned[1][c].status = NoMatch
    /\ returned[1][1].item # Sections[1].items[1]

\* The metadata request of item i raised (connection error or non-2xx).
RequestRaised(i) ==
    /\ Len(gets[i]) > 0
    /\ LET g == gets[i][Len(gets[i])] IN
         g.net = "fail" \/ Answer(tmdb, g.wire).status # 200

\* The library write of item i raised.
EditRaised(i) == Len(writes[i]) > 0 /\ ~writes[i][Len(writes[i])].applied

\* Some step of the run can be taken: the guards of the actions of Next.
CanStep ==
    \/ upc = "loop"
    \/ /\ upc = "pool"
       /\ \/ \E i \in Items : NextQueued(i) /\ Cardinality(Running) < max_workers
          \/ \E i \in Items : pc[i] \in {"resolve", "get", "reconcile", "finished"}
          \/ \A j \in 1..Len(media_items) : pc[media_items[j]] = "collected"

\* CanStep is the enabledness of Next.
CanStepIsEnabled == CanStep <=> ENABLED Next

\* C2: when the metadata request or the library write of an item raises,
\* the item's future holds a result whose status begins with "Error: " (no
\* exception reaches the as_completed loop), the run is never stuck before
\* update_library is done, and once it is done every item of every
\* movie/show section has been collected with a result.
C2_ErrorContained ==
    /\ \A i \in Items :
          (Done(i) /\ (RequestRaised(i) \/ EditRaised(i))) =>
              /\ outcome[i].kind = "result"
              /\ IsError(outcome[i].status)
    /\ (upc # "done") => CanStep
    /\ (upc = "done") =>
          \A k \in 1..Len(Sections) : Supported(Sections[k]) =>
              \A i \in ItemsOf(k) :
                  /\ pc[i] = "collected"
                  /\ outcome[i].kind = "result"
                  /\ ResultsFor(returned[k], i) # {}

\* The run is done; in the first section one item's request raised and
\* another item's write raised, and the later section was processed.
C2_Witness ==
    /\ upc = "done"
    /\ \E i, j \in ItemsOf(1) : RequestRaised(i) /\ EditRaised(j)
    /\ \A i \in ItemsOf(3) : pc[i] = "collected"

\* Resolution of item i returned a record whose description differs from
\* the summary the item had.
ResolvedDiffering(i) ==
    /\ Done(i)
    /\ data[i].state = "returned"
    /\ "overview" \in DOMAIN data[i].value
    /\ data[i].value.overview # data[i].current

OneWriteOf(i) ==
    /\ Len(writes[i]) = 1
    /\ writes[i][1].value = data[i].value.overview

\* C3 as stated: a differing description gives exactly one write carrying
\* the description, and the outcome "Updated".
C3_Original ==
    \A i \in Items :
        ResolvedDiffering(i) =>
            /\ OneWriteOf(i)
            /\ outcome[i] = Returned(plex[i].title, <<"Updated">>)

\* C3 (amended): a differing description gives exactly one write carrying
\* the description; if the write returns, the outcome is "Updated" and the
\* library holds the description; if the write raises, the outcome is an
\* "Error: " result and the summary is as it was.
C3_OneWriteThenUpdated ==
    \A i \in Items :
        ResolvedDiffering(i) =>
            /\ OneWriteOf(i)
            /\ writes[i][1].applied =>
                  /\ outcome[i] = Returned(plex[i].title, <<"Updated">>)
                  /\ summary[i] = data[i].value.overview
            /\ ~writes[i][1].applied =>
                  /\ outcome[i].kind = "result"
                  /\ IsError(outcome[i].status)
                  /\ summary[i] = data[i].current

\* Two items resolved to a differing description; the write of one was
\* applied, the write of the other raised.
C3_Witness ==
    \E i, j \in Items :
        /\ ResolvedDiffering(i) /\ writes[i][1].applied
        /\ ResolvedDiffering(j) /\ ~writes[j][1].applied

\* Resolution of item i returned a record whose description equals the
\* summary the item had.
ResolvedEqual(i) ==
    /\ Done(i)
    /\ data[i].state = "returned"
    /\ "overview" \in DOMAIN data[i].value
    /\ data[i].value.overview = data[i].current

\* C4: an equal description gives no library write, the outcome
\* "No change needed", and the summary stays.
C4_EqualNoWrite ==
    \A i \in Items :
        ResolvedEqual(i) =>
            /\ writes[i] = <<>>
            /\ outcome[i] = Returned(plex[i].title, <<"No change needed">>)
            /\ summary[i] = data[i].current

\* An item resolved by lookup and one resolved by search both had the
\* database's description already.
C4_Witness ==
    \E i, j \in Items :
        /\ ResolvedEqual(i) /\ GetTmdbId(plex[i].guids) # <<>>
        /\ ResolvedEqual(j) /\ GetTmdbId(plex[j].guids) = <<>>

\* Resolution of item i returned no record.
ResolvedNone(i) ==
    /\ Done(i)
    /\ data[i].state = "returned"
    /\ DOMAIN data[i].value = {}

\* C5 as stated: no record gives the outcome "No match found" and no write.
C5_Original ==
    \A i \in Items :
        ResolvedNone(i) =>
            /\ outcome[i] = Returned(plex[i].title, <<"No match found">>)
            /\ writes[i] = <<>>

\* C5 (amended): no record gives the outcome "No TMDB match found" and no
\* write; the summary stays.
C5_NoMatchLabel ==
    \A i \in Items :
        ResolvedNone(i) =>
            /\ outcome[i] = Returned(plex[i].title, <<"No TMDB match found">>)
            /\ writes[i] = <<>>
            /\ summary[i] = Old

\* A search with an empty result list resolved an item to no record.
C5_Witness ==
    \E i \in Items :
        /\ ResolvedNone(i)
        /\ Len(gets[i]) = 1
        /\ Answer(tmdb, gets[i][1].wire) = Ok([results |-> <<>>])

\* The item carries an external-id reference in the tmdb namespace.
HasTmdbRef(item) == \E k \in 1..Len(item.guids) : item.guids[k][1] = "tmdb"

\* The id of the first such reference.
TmdbRefId(item) ==
    LET k == CHOOSE k \in 1..Len(item.guids) :
                 /\ item.guids[k][1] = "tmdb"
                 /\ \A j \in 1..(k - 1) : item.guids[j][1] # "tmdb"
    IN item.guids[k][3]

Resolving(i) == pc[i] \in {"get", "reconcile", "finished", "collected"}

DirectEndpoint(item) ==
    <<IF item.type = "movie" THEN "movie" ELSE "tv", "/", TmdbRefId(item)>>

\* C6: for an item with a tmdb reference, resolution makes one request, the
\* direct lookup movie/{id} (movies) or tv/{id} (otherwise) without
\* parameters, and nothing it puts on the wire is a search, whether the
\* lookup is answered from the cache, succeeds, is not found or fails.
C6_DirectLookupOnly ==
    \A i \in Items :
        (HasTmdbRef(plex[i]) /\ Resolving(i)) =>
            /\ calls[i] = <<[endpoint |-> DirectEndpoint(plex[i]), items |-> <<>>]>>
            /\ Len(gets[i]) <= 1
            /\ \A g \in 1..Len(gets[i]) :
                  gets[i][g].wire = [endpoint |-> DirectEndpoint(plex[i]), query |-> {}]

\* A show and a movie with tmdb references are done; the movie's reference
\* was not its first guid, and its lookup raised.
C6_Witness ==
    /\ \E i \in Items :
          /\ plex[i].type = "show" /\ HasTmdbRef(plex[i]) /\ Done(i)
          /\ gets[i] # <<>>
    /\ \E i \in Items :
          /\ plex[i].type = "movie" /\ HasTmdbRef(plex[i]) /\ Done(i)
          /\ plex[i].guids[1][1] # "tmdb"
          /\ data[i].state = "raised"

SearchEndpoint(item) == <<"search", "/", IF item.type = "movie" THEN "movie" ELSE "tv">>

\* The query of the search for an item: its title, and its year if it has one.
SearchQuery(item) ==
    {<<"query", item.title>>}
        \cup (IF item.year = PyNone THEN {} ELSE {<<"year", item.year>>})

\* C7: for an item without a tmdb reference, resolution makes one request,
\* the search search/movie or search/tv with query = title and year = the
\* item's year (None when it has none); at most one request goes on the
\* wire, a search whose query holds the title and holds the year only when
\* the item has one; and when resolution returns, it returns the first
\* element of the result list the database answers with, none if it is empty.
C7_SearchFirstResult ==
    \A i \in Items :
        (~HasTmdbRef(plex[i]) /\ Resolving(i)) =>
            LET w == [endpoint |-> SearchEndpoint(plex[i]),
                      query |-> SearchQuery(plex[i])]
                listed == Answer(tmdb, w).json.results
            IN /\ calls[i] = <<[endpoint |-> SearchEndpoint(plex[i]),
                                items |-> << <<"query", plex[i].title>>,
                                             <<"year", plex[i].year>> >>]>>
               /\ Len(gets[i]) <= 1
               /\ \A g \in 1..Len(gets[i]) : gets[i][g].wire = w
               /\ data[i].state = "returned" =>
                     data[i].value = IF Len(listed) = 0 THEN <<>> ELSE listed[1]

\* A show without a year and a movie with one were resolved by search, the
\* show from a list of two, the movie from an empty list.
C7_Witness ==
    /\ \E i \in Items :
          /\ ~HasTmdbRef(plex[i]) /\ plex[i].year = PyNone /\ Done(i)
          /\ Len(gets[i]) = 1
          /\ Len(Answer(tmdb, gets[i][1].wire).json.results) = 2
          /\ data[i].state = "returned" /\ data[i].value = [overview |-> Old]
    /\ \E i \in Items :
          /\ ~HasTmdbRef(plex[i]) /\ plex[i].year # PyNone /\ Done(i)
          /\ data[i].state = "returned" /\ data[i].value = <<>>

\* C8 as stated: when the direct lookup of an item with a tmdb reference is
\* answered not-found, resolution does not raise and returns no record.
C8_StaleIdNoRaise ==
    \A i \in Items :
        ( /\ HasTmdbRef(plex[i])
          /\ Done(i)
          /\ Len(gets[i]) = 1
          /\ gets[i][1].net = "ok"
          /\ Answer(tmdb, gets[i][1].wire).status = 404 ) =>
            /\ data[i].state = "returned"
            /\ DOMAIN data[i].value = {}

\* The two parameter lists hold the same parameters, in whatever order.
SameParams(a, b) ==
    {a[k] : k \in 1..Len(a)} = {b[k] : k \in 1..Len(b)}

\* Calls k and k + 1 of the client are params-only requests for the same
\* endpoint and parameter set, and call k succeeded.
Repeated(k) ==
    /\ hist[k].endpoint = hist[k + 1].endpoint
    /\ SameParams(hist[k].items, hist[k + 1].items)
    /\ ~hist[k].extra /\ ~hist[k + 1].extra
    /\ hist[k].ok

\* C9: of two params-only requests with the same endpoint and the same
\* parameter set (in any key order) made one after the other, the first
\* successful, the second makes no transport call and returns what the
\* first returned; the two together make at most one transport call.
C9_RepeatIsMemoized ==
    \A k \in 1..(Len(hist) - 1) :
        Repeated(k) =>
            /\ hist[k + 1].gets = 0
            /\ hist[k].gets + hist[k + 1].gets <= 1
            /\ hist[k + 1].ok
            /\ hist[k + 1].ret = hist[k].ret

\* A search that went to the transport is repeated with its parameters in
\* the other order.
C9_Witness ==
    \E k \in 1..(Len(hist) - 1) :
        /\ Repeated(k)
        /\ hist[k].gets = 1
        /\ Len(hist[k].items) = 2
        /\ hist[k].items # hist[k + 1].items

\* C10 as stated: once a request has succeeded, a later identical request
\* is served from the cache without a transport call, however many other
\* requests were made in between.
C10_Original ==
    (Len(hist) = 2 /\ hist[1].ok) => hist[2].gets = 0

\* C10 (amended): the cache is an LRU cache of maxsize (1024) entries.
\* After a request has succeeded, the identical request made after fewer
\* than maxsize distinct other successful requests is served from the
\* cache without a transport call and returns the same response; made
\* after maxsize or more, its entry has been evicted and it goes to the
\* transport again.
C10_MemoUntilEvicted ==
    (Len(hist) = 2 /\ hist[1].ok) =>
        /\ fills < maxsize => (hist[2].gets = 0 /\ hist[2].ret = hist[1].ret)
        /\ fills >= maxsize => hist[2].gets = 1

\* The probe is repeated after maxsize - 1 other requests and is served
\* from the full cache.
C10_Witness ==
    /\ Len(hist) = 2
    /\ fills = maxsize - 1
    /\ Len(cache) = maxsize
    /\ hist[2].gets = 0

\* C11: once the updater has been constructed from a Config in which some
\* required field is missing or empty, the run has failed with a
\* ConfigError whose message names each missing field once and no other
\* field, and no section has been enumerated, no item submitted, no
\* request made and no summary written.
Constructing == DOMAIN config # {}

MissingFields(cfg) == {f \in DOMAIN cfg : cfg[f] = "" \/ cfg[f] = PyNone}

FieldsNamed(line) ==
    {line[j] : j \in {n \in 1..Len(line) : line[n] \in DOMAIN ValidConfig}}

NothingTouched ==
    /\ sec = 1
    /\ media_items = <<>>
    /\ log = <<>>
    /\ \A i \in Items :
          /\ submitted[i] = 0
          /\ pc[i] = "idle"
          /\ calls[i] = <<>>
          /\ gets[i] = <<>>
          /\ writes[i] = <<>>
          /\ summary[i] = Old

C11_MissingFieldsNamed ==
    (Constructing /\ MissingFields(config) # {}) =>
        /\ upc = "exited"
        /\ exit.raised = "ConfigError"
        /\ Len(exit.lines) = 1
        /\ FieldsNamed(exit.lines[1]) = MissingFields(config)
        /\ Len(exit.lines[1]) = 1 + 2 * Cardinality(MissingFields(config))
        /\ NothingTouched

\* The three fields are missing and the message names the three.
C11_Witness ==
    /\ Constructing
    /\ Cardinality(MissingFields(config)) = 3
    /\ exit.raised = "ConfigError"
    /\ exit.lines[1] =
          <<"Error: ", "Missing required configuration: ",
            "plex_url", ", ", "plex_token", ", ", "tmdb_api_key">>

\* C12: whenever start-up has failed (the configuration is invalid or a
\* connection to the Plex server made at start-up failed), the process has
\* exited with a non-zero status and a single line that starts with
\* "Error: ", and no item has been processed.
C12_StartupFailureIsErrorLine ==
    upc = "exited" =>
        /\ exit.code # 0
        /\ Len(exit.lines) = 1
        /\ Head(exit.lines[1]) = "Error: "
        /\ NothingTouched

\* The aggregates logged for section k.
AggregatesOf(k) == {j \in 1..Len(log) : log[j].section = Sections[k].title}

\* The items of section k whose _update_item returned "Updated".
UpdatedIn(k) ==
    {i \in ItemsOf(k) : Done(i) /\ outcome[i].kind = "result"
                                /\ outcome[i].status = Updated}

AggregateIsRight(k) ==
    /\ Cardinality(AggregatesOf(k)) = 1
    /\ \A j \in AggregatesOf(k) :
          /\ log[j].updated = Cardinality(UpdatedIn(k))
          /\ log[j].total = Cardinality(ItemsOf(k))

\* C13 as stated: every movie or show section that has been processed has
\* exactly one aggregate, with updated = number of "Updated" outcomes and
\* total = number of items enumerated.
C13_Original ==
    \A k \in 1..Len(Sections) : SectionReturned(k) => AggregateIsRight(k)

\* C13: every movie or show section with at least one item that has been
\* processed has exactly one aggregate, with updated = number of "Updated"
\* outcomes and total = number of items enumerated; a section without items
\* has none; an aggregate is logged only once every item of its section has
\* completed and been collected.
C13_OneAggregatePerSection ==
    \A k \in 1..Len(Sections) :
        /\ (SectionReturned(k) /\ ItemsOf(k) # {}) => AggregateIsRight(k)
        /\ (SectionReturned(k) /\ ItemsOf(k) = {}) => AggregatesOf(k) = {}
        /\ AggregatesOf(k) # {} =>
              /\ SectionReturned(k)
              /\ \A i \in ItemsOf(k) : pc[i] = "collected"

\* The three movies ended Updated / No TMDB match found / Error and the
\* aggregate is 1 of 3.
C13_Witness ==
    /\ SectionReturned(1)
    /\ outcome[1].status = Updated
    /\ outcome[2].status = NoMatch
    /\ IsError(outcome[3].status)
    /\ \E j \in AggregatesOf(1) : log[j].updated = 1 /\ log[j].total = 3

\* The items of section k, whatever its kind.
SlotsOf(k) == {Sections[k].items[j] : j \in 1..Len(Sections[k].items)}

\* C14: for every section whose kind is neither movie nor show, in every
\* state of the run: none of its items has been enumerated or submitted, no
\* worker has started on one, none has been resolved against TMDB, none
\* has been written, its summaries are as they were, and the section has
\* neither results nor an aggregate.
C14_OtherKindsSkipped ==
    \A k \in 1..Len(Sections) :
        Sections[k].type \notin {"movie", "show"} =>
            /\ returned[k] = <<>>
            /\ \A j \in 1..Len(log) : log[j].section # Sections[k].title
            /\ \A i \in SlotsOf(k) :
                  /\ \A j \in 1..Len(media_items) : media_items[j] # i
                  /\ submitted[i] = 0
                  /\ started[i] = 0
                  /\ pc[i] = "idle"
                  /\ calls[i] = <<>>
                  /\ gets[i] = <<>>
                  /\ writes[i] = <<>>
                  /\ summary[i] = Old

\* The run is over: the Music section was passed, the sections before and
\* after it were processed.
C14_Witness ==
    /\ upc = "done"
    /\ Sections[2].type = "artist"
    /\ Len(returned[1]) = 3
    /\ Len(returned[3]) = 1

\* Item i has been handed to the pool or taken up by a worker.
Begun(i) == submitted[i] > 0 \/ started[i] > 0 \/ pc[i] # "idle"

\* C15: whenever an item of a later section has been submitted or begun,
\* every item of every earlier processed section has completed and been
\* collected, and that section's results have been returned.
C15_OneSectionAtATime ==
    \A k \in 1..Len(Sections) : \A later \in (k + 1)..Len(Sections) :
        (Sections[k].type \in {"movie", "show"} /\ \E i \in ItemsOf(later) : Begun(i)) =>
            /\ k < sec
            /\ Len(returned[k]) = Cardinality(ItemsOf(k))
            /\ \A i \in ItemsOf(k) : pc[i] = "collected"

\* A worker is reconciling the show while the three movies are collected.
C15_Witness ==
    /\ pc[5] \in {"resolve", "get", "reconcile"}
    /\ \A i \in ItemsOf(1) : pc[i] = "collected"
    /\ Len(returned[1]) = 3

\* The items a worker has begun and not yet finished.
InFlight == {i \in Items : started[i] > 0 /\ ~Done(i)}

\* C16: in every state at most max_workers items are being reconciled;
\* no item is submitted to the pool or begun by a worker more than once,
\* and every item of an enumerated section has been submitted once.
C16_BoundedPool ==
    /\ Cardinality(InFlight) <= max_workers
    /\ \A i \in Items :
          /\ submitted[i] <= 1
          /\ started[i] <= submitted[i]
    /\ \A j \in 1..Len(media_items) : submitted[media_items[j]] = 1
    /\ \A k \in 1..Len(Sections) :
          SectionReturned(k) => \A i \in ItemsOf(k) : submitted[i] = 1

\* The section has three items and the pool two workers: two items are
\* being reconciled while the third waits in the queue.
C16_Witness ==
    /\ max_workers = 2
    /\ Len(media_items) = 3
    /\ Cardinality(InFlight) = 2
    /\ \E i \in Items : pc[i] = "queued" /\ submitted[i] = 1

\* What the database answers to the request of item i.
AnswerFor(i) ==
    LET req == RequestOf(plex[i])
    IN Answer(tmdb, Wire(req.endpoint, ParamItems(req.items)))

\* The outcome and the final summary of item i as a function of the item
\* and the database alone (every summary is Old when the run starts).
ExpectedLabel(i) ==
    LET ans == AnswerFor(i)
        rec == TmdbData(RequestOf(plex[i]), ans.json)
    IN IF ans.status # 200 THEN "Error"
       ELSE IF DOMAIN rec = {} THEN "No TMDB match found"
       ELSE IF "overview" \notin DOMAIN rec THEN "Error"
       ELSE IF rec.overview = Old THEN "No change needed"
       ELSE "Updated"

ExpectedSummary(i) ==
    IF ExpectedLabel(i) = "Updated"
    THEN TmdbData(RequestOf(plex[i]), AnswerFor(i).json).overview
    ELSE Old

Label(status) == IF IsError(status) THEN "Error" ELSE status[1]

Labels == {"Error", "No TMDB match found", "No change needed", "Updated"}

\* Every request item i sent reached the database and every write it
\* issued was applied by the library.
Undisturbed(i) ==
    /\ \A j \in 1..Len(gets[i]) : gets[i][j].net = "ok"
    /\ \A j \in 1..Len(writes[i]) : writes[i][j].applied

\* C17: with the database fixed, under every interleaving of the workers
\* (cache hit or redundant lookup alike) a completed item whose requests
\* reached the database and whose write was applied has the outcome and the
\* summary that the item and the database alone determine; a summary
\* changes only by a write of its own item; and a returned section whose
\* items were all undisturbed has the multiset of outcomes so determined.
C17_ScheduleIndependent ==
    /\ \A i \in Items :
          /\ (Done(i) /\ Undisturbed(i)) =>
                /\ Label(outcome[i].status) = ExpectedLabel(i)
                /\ summary[i] = ExpectedSummary(i)
          /\ summary[i] # Old =>
                \E j \in 1..Len(writes[i]) :
                    writes[i][j].applied /\ writes[i][j].value = summary[i]
    /\ \A k \in 1..Len(Sections) :
          (SectionReturned(k) /\ \A i \in ItemsOf(k) : Undisturbed(i)) =>
              \A l \in Labels :
                  Cardinality({j \in 1..Len(returned[k]) :
                                  Label(returned[k][j].status) = l})
                  = Cardinality({i \in ItemsOf(k) : ExpectedLabel(i) = l})

\* Two workers missed the cache on the same key at once and each made the
\* lookup; both items were updated and the section has returned.
C17_Witness ==
    /\ SectionReturned(1)
    /\ Len(gets[1]) = 1
    /\ Len(gets[3]) = 1
    /\ gets[1][1].wire = gets[3][1].wire
    /\ Undisturbed(1) /\ Undisturbed(3)
    /\ outcome[1].status = Updated
    /\ outcome[3].status = Updated
    /\ summary[1] = New /\ summary[3] = New /\ summary[2] = Old

\* Item i has exactly one result in the list of its section, with one of
\* the terminal outcomes, and a worker began it once.
OneTerminalOutcome(k, i) ==
    /\ started[i] = 1
    /\ Len(calls[i]) = 1
    /\ Len(gets[i]) <= 1
    /\ Len(writes[i]) <= 1
    /\ Cardinality(ResultsFor(returned[k], i)) = 1
    /\ \A j \in ResultsFor(returned[k], i) :
          Label(returned[k][j].status) \in Labels

Terminated ==
    /\ upc = "done"
    /\ \A k \in 1..Len(Sections) :
          Sections[k].type \in {"movie", "show"} =>
              \A i \in ItemsOf(k) : OneTerminalOutcome(k, i)

\* C18: when every step that can be taken is eventually taken (every
\* network call returns or fails), the run ends and stays ended, every item
\* of every movie or show section then has exactly one terminal outcome,
\* and no worker began an item, requested for it or wrote it twice.
C18_Terminates == <>[]Terminated

\* The run has ended with one item in error, one updated and one unmatched.
C18_Witness ==
    /\ Terminated
    /\ max_workers = 1
    /\ \E a, b, c \in ItemsOf(1) :
          /\ IsError(outcome[a].status)
          /\ outcome[b].status = Updated
          /\ outcome[c].status = NoMatch

\* What the database answers to a request for endpoint with the parameter
\* pairs items.
Fetched(endpoint, items) == Answer(tmdb, Wire(endpoint, items))

\* Calls k and k + 1 of the client are params-only requests for the same
\* endpoint and parameter set, and call k failed with a TMDBError.
RepeatedAfterFailure(k) ==
    /\ hist[k].endpoint = hist[k + 1].endpoint
    /\ SameParams(hist[k].items, hist[k + 1].items)
    /\ ~hist[k].extra /\ ~hist[k + 1].extra
    /\ ~hist[k].ok

\* C19: every cache entry holds the successful (200) response of the
\* database to exactly its key's endpoint and parameter pairs, the pairs in
\* sorted order, and was fetched by an earlier successful call for that
\* endpoint and parameter set; a params-only request that follows a failed
\* identical one goes to the transport; a call served from the cache
\* returns what the database answers to its own endpoint and parameters.
C19_CacheHoldsOnlyFetched ==
    /\ \A e \in 1..Len(cache) :
          LET key == cache[e].key IN
          /\ key[2] = Sorted(key[2])
          /\ Fetched(key[1], key[2]).status = 200
          /\ cache[e].value = Fetched(key[1], key[2]).json
          /\ \E k \in 1..Len(hist) :
                /\ hist[k].ok /\ ~hist[k].extra /\ hist[k].gets = 1
                /\ hist[k].endpoint = key[1]
                /\ SameParams(hist[k].items, key[2])
    /\ \A k \in 1..(Len(hist) - 1) :
          RepeatedAfterFailure(k) => hist[k + 1].gets = 1
    /\ \A k \in 1..Len(hist) :
          (~hist[k].extra /\ hist[k].gets = 0) =>
              /\ hist[k].ok
              /\ Fetched(hist[k].endpoint, hist[k].items).status = 200
              /\ hist[k].ret = Fetched(hist[k].endpoint, hist[k].items).json

\* A search failed on the network and stored nothing, the same search was
\* then sent again to the transport and succeeded, and a search with other
\* parameters sent after it was not answered from the cache.
C19_Witness ==
    /\ Len(hist) = 3
    /\ Len(cache) = 2
    /\ RepeatedAfterFailure(1)
    /\ hist[2].gets = 1 /\ hist[2].ok
    /\ hist[3].endpoint = hist[2].endpoint
    /\ ~SameParams(hist[3].items, hist[2].items)
    /\ ~hist[3].extra /\ hist[3].gets = 1 /\ hist[3].ok
    /\ hist[3].ret # hist[2].ret

\* The library applied every write of the first run and of this run so far.
WritesApplied ==
    \A i \in Items :
        /\ \A j \in 1..Len(first[i].writes) : first[i].writes[j].applied
        /\ \A j \in 1..Len(writes[i]) : writes[i][j].applied

\* Item i ended the first run "Updated" or "No change needed".
SettledBefore(i) ==
    /\ DOMAIN first[i].outcome # {}
    /\ first[i].outcome.status \in {Updated, NoChange}

\* C20 as stated: in a second run over a library that applied every write,
\* no write is issued, every item that was Updated or unchanged in the
\* first run ends "No change needed", and every aggregate has updated = 0.
C20_Original ==
    (run = 2 /\ WritesApplied) =>
        /\ \A i \in Items : writes[i] = <<>>
        /\ \A i \in Items :
              (Done(i) /\ SettledBefore(i)) => outcome[i].status = NoChange
        /\ \A j \in 1..Len(log) : log[j].updated = 0

\* No request of item i failed on the network in the first run.
ReachedBefore(i) == \A j \in 1..Len(first[i].gets) : first[i].gets[j].net = "ok"

\* No request of item i failed on the network in this run.
ReachedNow(i) == \A j \in 1..Len(gets[i]) : gets[i][j].net = "ok"

\* C20: in a second run over a library that applied every write, an item
\* whose first-run request did not fail on the network is not written; if
\* it was Updated or unchanged in the first run and its request does not
\* fail in the second, it ends "No change needed"; and the aggregate of a
\* section none of whose items had a failed request in the first run has
\* updated = 0.
C20_SecondRunChangesNothing ==
    (run = 2 /\ WritesApplied) =>
        /\ \A i \in Items : ReachedBefore(i) => writes[i] = <<>>
        /\ \A i \in Items :
              (Done(i) /\ SettledBefore(i) /\ ReachedNow(i)) =>
                  outcome[i].status = NoChange
        /\ \A k \in 1..Len(Sections) :
              (\A i \in ItemsOf(k) : ReachedBefore(i)) =>
                  \A j \in AggregatesOf(k) : log[j].updated = 0

\* The second run has ended: the movies updated in the first run and the
\* show updated in the first run are all unchanged now, nothing was written
\* and both aggregates report 0 updated.
C20_Witness ==
    /\ run = 2
    /\ upc = "done"
    /\ WritesApplied
    /\ \A i \in {1, 3, 5} : first[i].outcome.status = Updated /\ ReachedBefore(i)
    /\ \A i \in {1, 2, 3, 5} : outcome[i].status = NoChange /\ writes[i] = <<>>
    /\ Len(log) = 2
    /\ \A j \in 1..Len(log) : log[j].updated = 0

====
